---------------------------- MODULE Spec2Model ----------------------------
(***************************************************************************)
(* Model of the AppSync / Aurora Serverless data-source walkthrough        *)
(* (appSync-rds-walkthrough.js).  serviceWalkthrough is an async function: *)
(* every action below is one run-to-completion turn of it, from the        *)
(* resolution of the awaited operation up to the next await.               *)
(***************************************************************************)
EXTENDS Integers, Sequences, FiniteSets

(***************************************************************************)
(* Bounds of the explored environment.                                     *)
(***************************************************************************)
MaxApis == 2          \* resources under amplifyMeta.api
MaxClusters == 2      \* clusters returned by describeDBClusters
MaxSecrets == 3       \* secrets listed over all pages
MaxPages == 3         \* listSecrets responses of one listing
MaxRecords == 3       \* rows returned by executeStatement

(***************************************************************************)
(* Strings whose content the code inspects are sequences of characters.    *)
(***************************************************************************)
startsWith(s, p) == /\ Len(s) >= Len(p)
                    /\ SubSeq(s, 1, Len(p)) = p

includes(s, sub) == \E i \in 1..(Len(s) - Len(sub) + 1) : SubSeq(s, i, i + Len(sub) - 1) = sub

SecretNamePrefix == <<"r","d","s","-","d","b","-","c","r","e","d","e","n","t","i","a","l","s","/">>

PostgresMarker == <<"p","o","s","t","g","r","e","s">>

\* The words of /Access denied for user/.
AccessDeniedPattern == <<"Access", "denied", "for", "user">>

(***************************************************************************)
(* The environment: project metadata, regions, the provider's inventory.   *)
(***************************************************************************)
Services == {"AppSync", "API Gateway"}

ApiName(i) == IF i = 1 THEN "api1" ELSE IF i = 2 THEN "api2" ELSE IF i = 3 THEN "api3" ELSE "api4"

\* amplifyMeta[category] as its ordered list of keys with their resources.
ApiCategories == UNION {[1..n -> Services] : n \in 0..MaxApis}

ApiResources(svc) == [i \in 1..Len(svc) |-> [name |-> ApiName(i), service |-> svc[i]]]

ProjectMetas == {[kind |-> "null", api |-> <<>>], [kind |-> "noCategory", api |-> <<>>]}
                \cup {[kind |-> "object", api |-> ApiResources(svc)] : svc \in ApiCategories}

availableRegions == <<"us-east-1", "eu-west-1">>

ResourceIdA == <<"c","l","-","A">>
ResourceIdB == <<"c","l","-","B">>

ClusterCatalogue ==
  { [DBClusterIdentifier |-> "pg-serverless", DBClusterArn |-> "arn:cluster:pg-serverless",
     DbClusterResourceId |-> ResourceIdA, EngineMode |-> "serverless",
     Engine |-> <<"a","u","r","o","r","a","-","p","o","s","t","g","r","e","s","q","l">>],
    [DBClusterIdentifier |-> "my-serverless", DBClusterArn |-> "arn:cluster:my-serverless",
     DbClusterResourceId |-> ResourceIdB, EngineMode |-> "serverless",
     Engine |-> <<"a","u","r","o","r","a","-","m","y","s","q","l">>],
    [DBClusterIdentifier |-> "legacy-serverless", DBClusterArn |-> "arn:cluster:legacy-serverless",
     DbClusterResourceId |-> <<"c","l","-","D">>, EngineMode |-> "serverless",
     Engine |-> <<"a","u","r","o","r","a">>],
    [DBClusterIdentifier |-> "pg-provisioned", DBClusterArn |-> "arn:cluster:pg-provisioned",
     DbClusterResourceId |-> <<"c","l","-","C">>, EngineMode |-> "provisioned",
     Engine |-> <<"a","u","r","o","r","a","-","p","o","s","t","g","r","e","s","q","l">>] }

SecretCatalogue ==
  { [Name |-> SecretNamePrefix \o ResourceIdA, ARN |-> "arn:secret:A"],
    [Name |-> SecretNamePrefix \o ResourceIdA \o <<"/","a","d","m","i","n">>, ARN |-> "arn:secret:A-admin"],
    [Name |-> SecretNamePrefix \o ResourceIdB, ARN |-> "arn:secret:B"],
    [Name |-> <<"m","y","-","s","e","c","r","e","t">>, ARN |-> "arn:secret:other"] }

RecordValues == {"rdsadmin", "postgres", "mysql", "app_db"}

ErrorCatalogue ==
  { [code |-> "BadRequestException", message |-> <<"Access", "denied", "for", "user", "'admin'">>],
    [code |-> "BadRequestException", message |-> <<"Communications", "link", "failure">>],
    [code |-> "ForbiddenException", message |-> <<"Access", "denied", "for", "user", "'admin'">>] }

\* The sequences of at most n distinct elements of S.
DistinctSeqs(S, n) ==
  {s \in UNION {[1..k -> S] : k \in 0..n} : \A i, j \in 1..Len(s) : i # j => s[i] # s[j]}

Range(s) == {s[i] : i \in 1..Len(s)}

(***************************************************************************)
(* A JavaScript Map: its entries in insertion order.                       *)
(***************************************************************************)
MapKeys(m) == [i \in 1..Len(m) |-> m[i][1]]

MapHas(m, k) == \E i \in 1..Len(m) : m[i][1] = k

MapGet(m, k) == m[CHOOSE i \in 1..Len(m) : m[i][1] = k][2]

MapSet(m, k, v) == IF MapHas(m, k)
                   THEN [i \in 1..Len(m) |-> IF m[i][1] = k THEN <<k, v>> ELSE m[i]]
                   ELSE Append(m, <<k, v>>)

VARIABLES
  amplifyMeta,         \* context.amplify.getProjectMeta()
  pc,                  \* the await the walkthrough is suspended at
  pending,             \* provider calls, prompts and telemetry calls in flight
  trace,               \* every call issued, message printed and exit, in order
  printed,             \* context.print.error messages
  emitted,             \* context.usageData.emitError error classes
  exitCode,            \* the code the process terminated with, if it did
  spinner,             \* the module's ora spinner
  prompt,              \* the question inquirer is showing, if any
  appSyncApi, selectedRegion, awsRegion,
  rawClusters, clusters, selectedClusterArn, clusterResourceId,
  params, rawSecrets, token, secrets, selectedSecretArn,
  listCalls,           \* the params of every listSecrets call of this listing
  pagesReturned,       \* every listSecrets response of this listing
  isPostgres, sql, records, err, databaseList, selectedDatabase,
  answer,              \* the value the last prompt resolved with, if any
  result,              \* the value serviceWalkthrough resolved with, if any
  rejection            \* the error serviceWalkthrough rejected with, if any

vars == <<amplifyMeta, pc, pending, trace, printed, emitted, exitCode, spinner, prompt,
          appSyncApi, selectedRegion, awsRegion,
          rawClusters, clusters, selectedClusterArn, clusterResourceId,
          params, rawSecrets, token, secrets, selectedSecretArn, listCalls, pagesReturned,
          isPostgres, sql, records, err, databaseList, selectedDatabase, answer, result, rejection>>

clusterVars == <<rawClusters, clusters, selectedClusterArn, clusterResourceId>>
secretVars == <<params, rawSecrets, token, secrets, selectedSecretArn, listCalls, pagesReturned>>
databaseVars == <<isPostgres, sql, records, err, databaseList, selectedDatabase, spinner>>
outcomeVars == <<exitCode, result, rejection>>
reportVars == <<printed, emitted>>
regionVars == <<appSyncApi, selectedRegion, awsRegion>>

NoParams == [MaxResults |-> 0, NextToken |-> <<>>]

Init ==
  /\ amplifyMeta \in ProjectMetas
  /\ pc = "start"
  /\ pending = {}
  /\ trace = <<>>
  /\ printed = <<>>
  /\ emitted = <<>>
  /\ exitCode = <<>>
  /\ spinner = "idle"
  /\ prompt = <<>>
  /\ appSyncApi = "undefined"
  /\ selectedRegion = "undefined"
  /\ awsRegion = "undefined"
  /\ rawClusters = <<>>
  /\ clusters = <<>>
  /\ selectedClusterArn = "undefined"
  /\ clusterResourceId = <<>>
  /\ params = NoParams
  /\ rawSecrets = <<>>
  /\ token = <<>>
  /\ secrets = <<>>
  /\ selectedSecretArn = "undefined"
  /\ listCalls = <<>>
  /\ pagesReturned = <<>>
  /\ isPostgres = FALSE
  /\ sql = "undefined"
  /\ records = <<>>
  /\ err = <<>>
  /\ answer = <<>>
  /\ databaseList = <<>>
  /\ selectedDatabase = "undefined"
  /\ result = <<>>
  /\ rejection = <<>>


(***************************************************************************)
(* Collaborators of the walkthrough.                                       *)
(***************************************************************************)
NoApiMessage == "You must create an AppSync API in your project before adding a graphql datasource. Please use \"amplify api add\" to create the API."
NoClustersMessage == "No properly configured Aurora Serverless clusters found."
NoSecretsMessage == "No RDS access credentials found in the AWS Secrect Manager."
NoDatabasesMessage == "No properly configured databases found."
EnsureCredentialsMessage == "Ensure that '${secretArn}' contains your database credentials. Please note that Aurora Serverless does not support IAM database authentication."

Message(text) == [msg |-> text, arg |-> ""]

PromptEvent(questionNumber) ==
  CASE questionNumber = 0 -> "prompt0"
    [] questionNumber = 1 -> "prompt1"
    [] questionNumber = 2 -> "prompt2"
    [] questionNumber = 3 -> "prompt3"

\* The call the function is suspended on at position `at`.
Awaited(at) ==
  CASE at \in {"emitNoApis", "emitNoAppSyncApi", "emitNoClusters", "emitNoSecrets", "emitNoDatabases"} -> "emitError"
    [] at = "listSecretsNext" -> "listSecrets"
    [] OTHER -> at

\* context.print.error(errMessage); await context.usageData.emitError(new errClass(errMessage)):
\* the message is printed, the telemetry call is issued and the function suspends at `site`.
\* Variant: telemetry is emitted before the message is printed.
ErrorEventsSwapped == <<"emitError", "print">>

ErrorEvents == <<"print", "emitError">>

ReportError(tr, pr, errMessage, errClass, site) ==
  /\ printed' = Append(pr, Message(errMessage))
  /\ emitted' = Append(emitted, errClass)
  /\ trace' = tr \o ErrorEvents
  /\ pending' = (pending \ {Awaited(pc)}) \cup {"emitError"}
  /\ prompt' = <<>>
  /\ pc' = site

\* inquirer.prompt of question `questionNumber` over choicesList; the function suspends at `site`.
promptWalkthroughQuestion(tr, questionNumber, choicesList, site) ==
  /\ prompt' = <<[questionNumber |-> questionNumber, choices |-> choicesList]>>
  /\ trace' = Append(tr, PromptEvent(questionNumber))
  /\ pending' = (pending \ {Awaited(pc)}) \cup {PromptEvent(questionNumber)}
  /\ pc' = site

\* A provider call is issued and the function suspends at `site`.
IssueCallAt(tr, call, site) ==
  /\ trace' = Append(tr, call)
  /\ pending' = (pending \ {Awaited(pc)}) \cup {call}
  /\ prompt' = <<>>
  /\ pc' = site

IssueCall(tr, call) == IssueCallAt(tr, call, call)

\* An async function returns: its caller resumes at `site` in a later turn.
ReturnTo(site) ==
  /\ pending' = pending \ {Awaited(pc)}
  /\ prompt' = <<>>
  /\ pc' = site

\* The process terminates with `code`: nothing of the walkthrough runs afterwards.
exitOnNextTick(code) ==
  /\ exitCode' = <<code>>
  /\ trace' = Append(trace, "exit")
  /\ pc' = "exited"

\* A rejected call that no try/catch encloses rejects the promise of serviceWalkthrough.
Reject(site, error) ==
  /\ pc = site
  /\ Awaited(site) \in pending
  /\ pending' = pending \ {Awaited(site)}
  /\ rejection' = <<error>>
  /\ pc' = "rejected"
  /\ UNCHANGED <<amplifyMeta, trace, printed, emitted, exitCode, spinner, prompt, regionVars,
                 clusterVars, secretVars, isPostgres, sql, records, err, databaseList, selectedDatabase,
                 answer, result>>

(***************************************************************************)
(* serviceWalkthrough, lines 10-47.                                        *)
(***************************************************************************)
HasNoApis(meta) == meta.kind = "null" \/ meta.kind = "noCategory" \/ Len(meta.api) = 0

\* Variant: the loop does not test the service of the resource.
findAnyApi(apis) == IF Len(apis) > 0 THEN apis[1].name ELSE "undefined"

\* Variant: the loop does not break at the first AppSync resource.
findLastAppSyncApi(apis) ==
  IF \E i \in 1..Len(apis) : apis[i].service = "AppSync"
  THEN apis[CHOOSE i \in 1..Len(apis) :
              /\ apis[i].service = "AppSync"
              /\ \A j \in (i + 1)..Len(apis) : apis[j].service # "AppSync"].name
  ELSE "undefined"

findAppSyncApi(apis) ==
  IF \E i \in 1..Len(apis) : apis[i].service = "AppSync"
  THEN apis[CHOOSE i \in 1..Len(apis) :
              /\ apis[i].service = "AppSync"
              /\ \A j \in 1..(i - 1) : apis[j].service # "AppSync"].name
  ELSE "undefined"

RegionQuestion == 0

Start ==
  /\ pc = "start"
  /\ IF HasNoApis(amplifyMeta)
     THEN /\ ReportError(trace, printed, NoApiMessage, "ResourceDoesNotExistError", "emitNoApis")
          /\ UNCHANGED appSyncApi
     ELSE LET found == findAppSyncApi(amplifyMeta.api) IN
          /\ appSyncApi' = found
          /\ IF found = "undefined"
             THEN ReportError(trace, printed, NoApiMessage, "ResourceDoesNotExistError", "emitNoAppSyncApi")
             ELSE /\ promptWalkthroughQuestion(trace, RegionQuestion, availableRegions, "prompt0")
                  /\ UNCHANGED reportVars
  /\ UNCHANGED <<amplifyMeta, selectedRegion, awsRegion, clusterVars, secretVars, databaseVars, answer,
                 outcomeVars>>

\* await emitError resolves; exitOnNextTick(0).
AwaitEmitError(site) ==
  /\ pc = site
  /\ "emitError" \in pending
  /\ pending' = pending \ {"emitError"}
  /\ exitOnNextTick(0)
  /\ UNCHANGED <<amplifyMeta, printed, emitted, prompt, regionVars, clusterVars, secretVars,
                 databaseVars, answer, result, rejection>>

ExitNoApis == AwaitEmitError("emitNoApis")

ExitNoAppSyncApi == AwaitEmitError("emitNoAppSyncApi")

RegionAnswered ==
  /\ pc = "prompt0"
  /\ \E region \in Range(prompt[1].choices) :
       /\ answer' = <<region>>
       /\ selectedRegion' = region
       /\ IssueCall(trace, "getAwsClient")
  /\ UNCHANGED <<amplifyMeta, appSyncApi, awsRegion, reportVars, clusterVars, secretVars,
                 databaseVars, outcomeVars>>

(***************************************************************************)
(* selectCluster, lines 76-102.                                            *)
(***************************************************************************)
\* Variant: the EngineMode test is missing.
allClusters(raw) == [i \in 1..Len(raw) |-> <<raw[i].DBClusterIdentifier, raw[i]>>]

RECURSIVE serverlessClusters(_)
serverlessClusters(raw) ==
  IF raw = <<>> THEN <<>>
  ELSE LET init == serverlessClusters(SubSeq(raw, 1, Len(raw) - 1))
           last == raw[Len(raw)]
       IN IF last.EngineMode = "serverless"
          THEN MapSet(init, last.DBClusterIdentifier, last)
          ELSE init

\* Variant: the cluster prompt uses the wrong question of inputs.
ClusterQuestionMisnumbered == RegionQuestion + 2

ClusterQuestion == 1

\* getAwsClient resolves; AWS.config.update; selectCluster issues describeDBClusters.
AwsClientAcquired ==
  /\ pc = "getAwsClient"
  /\ awsRegion' = selectedRegion
  /\ IssueCall(trace, "describeDBClusters")
  /\ UNCHANGED <<amplifyMeta, appSyncApi, selectedRegion, reportVars, clusterVars, secretVars,
                 databaseVars, answer, outcomeVars>>

DescribeDBClustersRejects == Reject("describeDBClusters", "ServiceError")

ClustersListed ==
  /\ pc = "describeDBClusters"
  /\ \E DBClusters \in DistinctSeqs(ClusterCatalogue, MaxClusters) :
       /\ rawClusters' = DBClusters
       /\ clusters' = serverlessClusters(DBClusters)
       /\ IF Len(clusters') > 0
          THEN /\ promptWalkthroughQuestion(trace, ClusterQuestion, MapKeys(clusters'), "prompt1")
               /\ UNCHANGED reportVars
          ELSE ReportError(trace, printed, NoClustersMessage, "ResourceDoesNotExistError", "emitNoClusters")
  /\ UNCHANGED <<amplifyMeta, regionVars, selectedClusterArn, clusterResourceId, secretVars,
                 databaseVars, answer, outcomeVars>>

ExitNoClusters == AwaitEmitError("emitNoClusters")

\* The cluster prompt resolves; selectCluster returns the ARN and the resource id.
ClusterAnswered ==
  /\ pc = "prompt1"
  /\ \E clusterIdentifier \in Range(prompt[1].choices) :
       LET selectedCluster == MapGet(clusters, clusterIdentifier) IN
       /\ answer' = <<clusterIdentifier>>
       /\ selectedClusterArn' = selectedCluster.DBClusterArn
       /\ clusterResourceId' = selectedCluster.DbClusterResourceId
  /\ ReturnTo("selectClusterReturned")
  /\ UNCHANGED <<amplifyMeta, trace, regionVars, reportVars, rawClusters, clusters, secretVars,
                 databaseVars, outcomeVars>>

(***************************************************************************)
(* getSecretStoreArn, lines 109-158.                                       *)
(***************************************************************************)
MaxResults == 20

SecretQuestion == 2

\* Variant: the missing credentials are reported as a missing resource.
NoSecretsErrorClassWrong == "ResourceDoesNotExistError"

NoSecretsErrorClass == "ResourceCredentialsNotFoundError"

truthy(tok) == tok # <<>>

\* Variant: a page replaces the pages fetched before it.
keepLastPage(raw, SecretList) == SecretList

mergePage(raw, SecretList) == raw \o SecretList

\* Variant: the name is compared for equality instead of startsWith.
RECURSIVE scanSecretsExact(_, _, _, _)
scanSecretsExact(raw, resourceId, i, acc) ==
  IF i > Len(raw) THEN [selectedSecretArn |-> "undefined", secrets |-> acc]
  ELSE IF raw[i].Name = SecretNamePrefix \o resourceId
       THEN [selectedSecretArn |-> raw[i].ARN, secrets |-> acc]
       ELSE scanSecretsExact(raw, resourceId, i + 1, MapSet(acc, raw[i].Name, raw[i].ARN))

\* The loop of lines 131-142 from index i on: the ARN detected, if any, and the Map built.
RECURSIVE scanSecrets(_, _, _, _)
scanSecrets(raw, resourceId, i, acc) ==
  IF i > Len(raw) THEN [selectedSecretArn |-> "undefined", secrets |-> acc]
  ELSE IF startsWith(raw[i].Name, SecretNamePrefix \o resourceId)
       THEN [selectedSecretArn |-> raw[i].ARN, secrets |-> acc]
       ELSE scanSecrets(raw, resourceId, i + 1, MapSet(acc, raw[i].Name, raw[i].ARN))

detectSecret(raw, resourceId) == scanSecrets(raw, resourceId, 1, <<>>)

\* The responses the secret store can give to the next listSecrets call: secrets not
\* listed yet (possibly none), with a continuation token unless this is the last page.
ListSecretsResponses ==
  {[SecretList |-> page, NextToken |-> tok] :
     page \in DistinctSeqs(SecretCatalogue \ Range(rawSecrets), MaxSecrets - Len(rawSecrets)),
     tok \in IF Len(pagesReturned) + 1 < MaxPages
             THEN {<<>>, <<Len(pagesReturned) + 2>>}
             ELSE {<<>>}}

\* selectCluster has returned; getSecretStoreArn issues the first listSecrets.
ContinueToSecrets ==
  /\ pc = "selectClusterReturned"
  /\ rawClusters' = <<>>
  /\ clusters' = <<>>
  /\ params' = [MaxResults |-> MaxResults, NextToken |-> <<>>]
  /\ listCalls' = <<params'>>
  /\ IssueCall(trace, "listSecrets")
  /\ UNCHANGED <<amplifyMeta, regionVars, reportVars, selectedClusterArn, clusterResourceId,
                 rawSecrets, token, secrets, selectedSecretArn, pagesReturned, databaseVars, answer,
                 outcomeVars>>

\* Lines 121-157 once rawSecrets and token are assigned.
AfterSecretsPage(raw, tok) ==
  IF truthy(tok)
  THEN /\ params' = [params EXCEPT !.NextToken = tok]
       /\ listCalls' = Append(listCalls, params')
       /\ IssueCallAt(trace, "listSecrets", "listSecretsNext")
       /\ UNCHANGED <<secrets, selectedSecretArn, reportVars>>
  ELSE LET found == detectSecret(raw, clusterResourceId) IN
       /\ secrets' = found.secrets
       /\ UNCHANGED <<params, listCalls>>
       /\ IF found.selectedSecretArn # "undefined"
          THEN /\ selectedSecretArn' = found.selectedSecretArn
               /\ ReturnTo("getSecretStoreArnReturned")
               /\ UNCHANGED <<trace, reportVars>>
          ELSE IF Len(found.secrets) > 0
               THEN /\ promptWalkthroughQuestion(trace, SecretQuestion, MapKeys(found.secrets), "prompt2")
                    /\ UNCHANGED <<selectedSecretArn, reportVars>>
               ELSE /\ ReportError(trace, printed, NoSecretsMessage, NoSecretsErrorClass, "emitNoSecrets")
                    /\ UNCHANGED selectedSecretArn

SecretsListed ==
  /\ pc = "listSecrets"
  /\ \E listSecretsResult \in ListSecretsResponses :
       /\ pagesReturned' = Append(pagesReturned, listSecretsResult)
       /\ rawSecrets' = listSecretsResult.SecretList
       /\ token' = listSecretsResult.NextToken
       /\ AfterSecretsPage(rawSecrets', token')
  /\ UNCHANGED <<amplifyMeta, regionVars, clusterVars, databaseVars, answer, outcomeVars>>

MoreSecretsListed ==
  /\ pc = "listSecretsNext"
  /\ \E tempSecretsResult \in ListSecretsResponses :
       /\ pagesReturned' = Append(pagesReturned, tempSecretsResult)
       /\ rawSecrets' = mergePage(rawSecrets, tempSecretsResult.SecretList)
       /\ token' = tempSecretsResult.NextToken
       /\ AfterSecretsPage(rawSecrets', token')
  /\ UNCHANGED <<amplifyMeta, regionVars, clusterVars, databaseVars, answer, outcomeVars>>

ListSecretsRejects == Reject("listSecrets", "ServiceError")

MoreListSecretsRejects == Reject("listSecretsNext", "ServiceError")

ExitNoSecrets == AwaitEmitError("emitNoSecrets")

SecretAnswered ==
  /\ pc = "prompt2"
  /\ \E selectedSecretName \in Range(prompt[1].choices) :
       /\ answer' = <<selectedSecretName>>
       /\ selectedSecretArn' = MapGet(secrets, selectedSecretName)
  /\ ReturnTo("getSecretStoreArnReturned")
  /\ UNCHANGED <<amplifyMeta, trace, regionVars, reportVars, clusterVars, params, rawSecrets, token,
                 secrets, listCalls, pagesReturned, databaseVars, outcomeVars>>

(***************************************************************************)
(* selectDatabase, lines 166-209, and the return of serviceWalkthrough.    *)
(***************************************************************************)
DatabaseQuestion == 3

\* describeDBClusters({ DBClusterIdentifier: clusterArn }): the cluster of that ARN.
DescribeDBClustersById(clusterArn) == <<CHOOSE c \in ClusterCatalogue : c.DBClusterArn = clusterArn>>

\* The rows executeStatement can return: one field, a string, per row.
StatementRecords ==
  UNION {[1..n -> {<<[stringValue |-> v]>> : v \in RecordValues}] : n \in 0..MaxRecords}

somePostgres(DBClusters) == \E i \in 1..Len(DBClusters) : includes(DBClusters[i].Engine, PostgresMarker)

statement(postgres) == IF postgres THEN "SELECT datname FROM pg_database;" ELSE "show databases"

\* Variant: the two reserved sets are exchanged.
validRecordValuesSwapped(postgres) ==
  IF postgres
  THEN {"information_schema", "performance_schema", "mysql"}
  ELSE {"rdsadmin", "postgres", "template1", "template0"}

validRecordValues(postgres) ==
  IF postgres
  THEN {"rdsadmin", "postgres", "template1", "template0"}
  ELSE {"information_schema", "performance_schema", "mysql"}

\* The loop of lines 183-188.
RECURSIVE collectDatabases(_, _)
collectDatabases(rows, reserved) ==
  IF rows = <<>> THEN <<>>
  ELSE LET init == collectDatabases(SubSeq(rows, 1, Len(rows) - 1), reserved)
           recordValue == rows[Len(rows)][1].stringValue
       IN IF recordValue \notin reserved THEN Append(init, recordValue) ELSE init

\* Variant: the message of the error is not tested.
isAccessDeniedAnyMessage(e) == e.code = "BadRequestException"

isAccessDenied(e) == e.code = "BadRequestException" /\ includes(e.message, AccessDeniedPattern)

\* getSecretStoreArn has returned; selectDatabase describes the selected cluster.
ContinueToDatabase ==
  /\ pc = "getSecretStoreArnReturned"
  /\ params' = NoParams
  /\ rawSecrets' = <<>>
  /\ token' = <<>>
  /\ secrets' = <<>>
  /\ listCalls' = <<>>
  /\ pagesReturned' = <<>>
  /\ IssueCall(trace, "describeDBCluster")
  /\ UNCHANGED <<amplifyMeta, regionVars, reportVars, clusterVars, selectedSecretArn, databaseVars,
                 answer, outcomeVars>>

DescribeDBClusterRejects == Reject("describeDBCluster", "ServiceError")

ClusterDescribed ==
  /\ pc = "describeDBCluster"
  /\ LET dbCluster == DescribeDBClustersById(selectedClusterArn) IN
       /\ isPostgres' = somePostgres(dbCluster)
       /\ sql' = statement(isPostgres')
  /\ spinner' = "spinning"
  /\ IssueCall(trace, "executeStatement")
  /\ UNCHANGED <<amplifyMeta, regionVars, reportVars, clusterVars, secretVars, records, err,
                 databaseList, selectedDatabase, answer, outcomeVars>>

\* Lines 201-208: prompt over a non-empty databaseList, the error otherwise.
AfterStatement(tr, pr, list) ==
  IF Len(list) > 0
  THEN /\ promptWalkthroughQuestion(tr, DatabaseQuestion, list, "prompt3")
       /\ printed' = pr
       /\ UNCHANGED emitted
  ELSE ReportError(tr, pr, NoDatabasesMessage, "ResourceDoesNotExistError", "emitNoDatabases")

StatementExecuted ==
  /\ pc = "executeStatement"
  /\ \E rows \in StatementRecords :
       /\ records' = rows
       /\ databaseList' = collectDatabases(rows, validRecordValues(isPostgres))
       /\ spinner' = "succeeded"
       /\ AfterStatement(trace, printed, databaseList')
  /\ UNCHANGED <<amplifyMeta, regionVars, clusterVars, secretVars, isPostgres, sql, err,
                 selectedDatabase, answer, outcomeVars>>

StatementFailed ==
  /\ pc = "executeStatement"
  /\ \E thrown \in ErrorCatalogue :
       /\ err' = <<thrown>>
       /\ spinner' = "failed"
       /\ IF isAccessDenied(thrown)
          THEN AfterStatement(Append(trace, "print"),
                              Append(printed, [msg |-> EnsureCredentialsMessage, arg |-> selectedSecretArn]),
                              databaseList)
          ELSE AfterStatement(trace, printed, databaseList)
  /\ UNCHANGED <<amplifyMeta, regionVars, clusterVars, secretVars, isPostgres, sql, records,
                 databaseList, selectedDatabase, answer, outcomeVars>>

ExitNoDatabases == AwaitEmitError("emitNoDatabases")

DatabaseAnswered ==
  /\ pc = "prompt3"
  /\ \E database \in Range(prompt[1].choices) :
       /\ answer' = <<database>>
       /\ selectedDatabase' = database
  /\ ReturnTo("selectDatabaseReturned")
  /\ UNCHANGED <<amplifyMeta, trace, regionVars, reportVars, clusterVars, secretVars, isPostgres, sql,
                 records, err, databaseList, spinner, outcomeVars>>

\* Lines 63-69.
ReturnResult ==
  /\ pc = "selectDatabaseReturned"
  /\ result' = <<[region |-> selectedRegion, dbClusterArn |-> selectedClusterArn,
                  secretStoreArn |-> selectedSecretArn, databaseName |-> selectedDatabase,
                  resourceName |-> appSyncApi]>>
  /\ records' = <<>>
  /\ databaseList' = <<>>
  /\ pc' = "returned"
  /\ UNCHANGED <<amplifyMeta, pending, trace, prompt, regionVars, reportVars, clusterVars, secretVars,
                 isPostgres, sql, err, selectedDatabase, spinner, answer, exitCode, rejection>>

Next ==
  \/ Start
  \/ ExitNoApis
  \/ ExitNoAppSyncApi
  \/ RegionAnswered
  \/ AwsClientAcquired
  \/ DescribeDBClustersRejects
  \/ ClustersListed
  \/ ExitNoClusters
  \/ ClusterAnswered
  \/ ContinueToSecrets
  \/ SecretsListed
  \/ MoreSecretsListed
  \/ ListSecretsRejects
  \/ MoreListSecretsRejects
  \/ ExitNoSecrets
  \/ SecretAnswered
  \/ ContinueToDatabase
  \/ DescribeDBClusterRejects
  \/ ClusterDescribed
  \/ StatementExecuted
  \/ StatementFailed
  \/ ExitNoDatabases
  \/ DatabaseAnswered
  \/ ReturnResult

Spec == Init /\ [][Next]_vars


(***************************************************************************)
(* Properties.                                                             *)
(***************************************************************************)
Count(e) == Cardinality({i \in 1..Len(trace) : trace[i] = e})

Issued(e) == \E i \in 1..Len(trace) : trace[i] = e

ProviderCalls == {"getAwsClient", "describeDBClusters", "listSecrets", "describeDBCluster", "executeStatement"}

NoProviderCall == \A i \in 1..Len(trace) : trace[i] \notin ProviderCalls

AppSyncIndexes == {i \in 1..Len(amplifyMeta.api) : amplifyMeta.api[i].service = "AppSync"}

Min(S) == CHOOSE m \in S : \A n \in S : m <= n

StoppedForMissingApi == pc \in {"start", "emitNoApis", "emitNoAppSyncApi", "exited"}

\* C1: when no resource of amplifyMeta.api has service AppSync (metadata null, category
\* missing or empty, or only other services), the walkthrough prints the "You must create
\* an AppSync API" message, emits a ResourceDoesNotExistError and exits; no prompt is
\* rendered and getAwsClient, describeDBClusters, listSecrets and executeStatement are
\* never called.
C1_NoAppSyncApiStopsBeforeProvider ==
  AppSyncIndexes = {} =>
    /\ NoProviderCall
    /\ prompt = <<>>
    /\ result = <<>>
    /\ rejection = <<>>
    /\ StoppedForMissingApi
    /\ pc # "start" => /\ printed = <<Message(NoApiMessage)>>
                       /\ emitted = <<"ResourceDoesNotExistError">>
    /\ pc \in {"emitNoApis", "emitNoAppSyncApi"} => trace = <<"print", "emitError">>
    /\ pc = "exited" => /\ trace = <<"print", "emitError", "exit">>
                        /\ exitCode = <<0>>

C1_Witness ==
  /\ pc = "exited"
  /\ amplifyMeta.kind = "object"
  /\ Len(amplifyMeta.api) = 2
  /\ AppSyncIndexes = {}

\* C2 as stated: whenever the number of AppSync resources is not exactly one, the
\* walkthrough stops with the error before any provider call.
C2_Original ==
  Cardinality(AppSyncIndexes) # 1 => (NoProviderCall /\ StoppedForMissingApi)

\* C2 as amended: with no AppSync resource the walkthrough stops with the error before
\* any provider call; with one or more it goes on, and the resource name it uses and
\* returns is the first AppSync resource in key order.
C2_FirstAppSyncApiIsUsed ==
  /\ AppSyncIndexes = {} => (NoProviderCall /\ StoppedForMissingApi)
  /\ (AppSyncIndexes # {} /\ pc # "start") =>
       /\ appSyncApi = amplifyMeta.api[Min(AppSyncIndexes)].name
       /\ trace[1] = "prompt0"
       /\ \A i \in 1..Len(printed) : printed[i].msg # NoApiMessage
  /\ result # <<>> => result[1].resourceName = amplifyMeta.api[Min(AppSyncIndexes)].name

C2_Witness ==
  /\ Cardinality(AppSyncIndexes) = 2
  /\ pc = "returned"
  /\ result[1].resourceName = "api1"

NoServerless(raw) == \A i \in 1..Len(raw) : raw[i].EngineMode # "serverless"

LastPrintedIs(text) == printed # <<>> /\ printed[Len(printed)].msg = text

\* C3: when describeDBClusters returns a list without any serverless cluster (the empty
\* list included), selectCluster prints "No properly configured Aurora Serverless
\* clusters found.", emits a ResourceDoesNotExistError and exits; the cluster prompt is
\* not rendered and listSecrets is never called.  A cluster prompt offers serverless
\* clusters only, and listSecrets is only called after a cluster prompt.
C3_NoServerlessClusterStops ==
  /\ (pc \in {"prompt1", "emitNoClusters", "selectClusterReturned"} /\ NoServerless(rawClusters)) =>
       /\ pc = "emitNoClusters"
       /\ printed = <<Message(NoClustersMessage)>>
       /\ emitted = <<"ResourceDoesNotExistError">>
       /\ prompt = <<>>
       /\ ~Issued("prompt1")
       /\ ~Issued("listSecrets")
  /\ (pc = "exited" /\ LastPrintedIs(NoClustersMessage)) =>
       /\ NoServerless(rawClusters)
       /\ emitted = <<"ResourceDoesNotExistError">>
       /\ exitCode = <<0>>
       /\ trace = <<"prompt0", "getAwsClient", "describeDBClusters", "print", "emitError", "exit">>
  /\ pc = "prompt1" =>
       /\ prompt[1].choices # <<>>
       /\ \A k \in 1..Len(prompt[1].choices) :
            \E i \in 1..Len(rawClusters) :
              /\ rawClusters[i].DBClusterIdentifier = prompt[1].choices[k]
              /\ rawClusters[i].EngineMode = "serverless"
  /\ Issued("listSecrets") => Issued("prompt1")

C3_Witness ==
  /\ pc = "exited"
  /\ Len(rawClusters) >= 1
  /\ NoServerless(rawClusters)
  /\ LastPrintedIs(NoClustersMessage)

\* The secret listing is complete and lines 128-157 have run.
DetectionDone == pc \in {"getSecretStoreArnReturned", "prompt2", "emitNoSecrets"}

MatchIndexes ==
  {i \in 1..Len(rawSecrets) : startsWith(rawSecrets[i].Name, SecretNamePrefix \o clusterResourceId)}

ExactIndexes ==
  {i \in 1..Len(rawSecrets) : rawSecrets[i].Name = SecretNamePrefix \o clusterResourceId}

\* C4 as stated: when the merged listing holds a secret named exactly
\* rds-db-credentials/<resource id>, getSecretStoreArn returns the ARN of that secret
\* without prompting, whatever is listed before or after it.
C4_Original ==
  (DetectionDone /\ ExactIndexes # {}) =>
    /\ pc = "getSecretStoreArnReturned"
    /\ ~Issued("prompt2")
    /\ \A i \in ExactIndexes : selectedSecretArn = rawSecrets[i].ARN

\* C4 as amended: when the merged listing holds a secret whose name starts with
\* rds-db-credentials/<resource id>, getSecretStoreArn returns, without prompting, the
\* ARN of the first such secret in listing order; that is the exactly named secret
\* whenever no secret listed before it has a name starting with the same string.
C4_FirstPrefixMatchIsSelected ==
  (DetectionDone /\ MatchIndexes # {}) =>
    /\ pc = "getSecretStoreArnReturned"
    /\ ~Issued("prompt2")
    /\ prompt = <<>>
    /\ selectedSecretArn = rawSecrets[Min(MatchIndexes)].ARN
    /\ \A i \in ExactIndexes :
         (\A j \in 1..(i - 1) : j \notin MatchIndexes) => selectedSecretArn = rawSecrets[i].ARN

C4_Witness ==
  /\ pc = "getSecretStoreArnReturned"
  /\ ExactIndexes # {}
  /\ Min(ExactIndexes) > 1
  /\ Len(rawSecrets) > Min(ExactIndexes)
  /\ selectedSecretArn = rawSecrets[Min(ExactIndexes)].ARN
  /\ ~Issued("prompt2")

RECURSIVE Flatten(_)
Flatten(pages) ==
  IF pages = <<>> THEN <<>>
  ELSE Flatten(SubSeq(pages, 1, Len(pages) - 1)) \o pages[Len(pages)].SecretList

InListing == pc \in {"listSecrets", "listSecretsNext"}

\* C5: getSecretStoreArn calls listSecrets with MaxResults 20, then once more for every
\* response that carries a NextToken, passing that token; rawSecrets is the concatenation
\* of all pages in order; detection, the secret prompt and the "no credentials" error
\* only happen once a response without a token has arrived, and that response is the
\* last one fetched.
C5_PaginationMergesAllPages ==
  /\ (InListing \/ DetectionDone) =>
       /\ rawSecrets = Flatten(pagesReturned)
       /\ Len(listCalls) = Count("listSecrets")
       /\ listCalls[1] = [MaxResults |-> MaxResults, NextToken |-> <<>>]
       /\ \A k \in 2..Len(listCalls) :
            /\ listCalls[k].MaxResults = MaxResults
            /\ listCalls[k].NextToken # <<>>
            /\ listCalls[k].NextToken = pagesReturned[k - 1].NextToken
       /\ Len(pagesReturned) = Len(listCalls) - (IF InListing THEN 1 ELSE 0)
  /\ InListing =>
       /\ ~Issued("prompt2")
       /\ selectedSecretArn = "undefined"
       /\ secrets = <<>>
       /\ printed = <<>>
       /\ pending = {"listSecrets"}
  /\ DetectionDone =>
       /\ pagesReturned[Len(pagesReturned)].NextToken = <<>>
       /\ \A k \in 1..(Len(pagesReturned) - 1) : pagesReturned[k].NextToken # <<>>

C5_Witness ==
  /\ DetectionDone
  /\ Len(pagesReturned) = 2
  /\ Len(pagesReturned[1].SecretList) = 2
  /\ Len(pagesReturned[2].SecretList) = 1
  /\ Len(rawSecrets) = 3

SelectedClusterEngine == (CHOOSE c \in ClusterCatalogue : c.DBClusterArn = selectedClusterArn).Engine

RowValues == [i \in 1..Len(records) |-> records[i][1].stringValue]

ReservedNames ==
  IF includes(SelectedClusterEngine, <<"p","o","s","t","g","r","e","s">>)
  THEN {"rdsadmin", "postgres", "template1", "template0"}
  ELSE {"information_schema", "performance_schema", "mysql"}

ExpectedDatabases == SelectSeq(RowValues, LAMBDA v : v \notin ReservedNames)

\* C6: selectDatabase classifies the cluster as Postgres exactly when its engine name
\* contains "postgres"; the choices of the database prompt are the row values returned
\* by executeStatement, in order, without the reserved names of that classification;
\* Postgres rows rdsadmin, postgres, app_db give exactly app_db.
C6_DatabaseCandidates ==
  /\ pc \in {"executeStatement", "prompt3", "emitNoDatabases", "selectDatabaseReturned"} =>
       /\ isPostgres = includes(SelectedClusterEngine, <<"p","o","s","t","g","r","e","s">>)
       /\ sql = IF isPostgres THEN "SELECT datname FROM pg_database;" ELSE "show databases"
  /\ pc = "prompt3" =>
       /\ prompt = <<[questionNumber |-> 3, choices |-> ExpectedDatabases]>>
       /\ ExpectedDatabases # <<>>
  /\ (pc = "emitNoDatabases" /\ err = <<>>) => ExpectedDatabases = <<>>
  /\ (pc = "prompt3" /\ isPostgres /\ RowValues = <<"rdsadmin", "postgres", "app_db">>) =>
       prompt[1].choices = <<"app_db">>

C6_Witness ==
  /\ pc = "prompt3"
  /\ isPostgres
  /\ RowValues = <<"rdsadmin", "postgres", "app_db">>
  /\ prompt[1].choices = <<"app_db">>

\* C7: a failing executeStatement is caught and not re-raised; the "Ensure that ..."
\* message naming the secret ARN is printed exactly for a BadRequestException whose
\* message matches "Access denied for user"; in every case "No properly configured
\* databases found." is then printed, a ResourceDoesNotExistError is emitted, the process
\* exits and the database prompt is never rendered.
C7_StatementFailureFallsThrough ==
  err # <<>> =>
    /\ pc \in {"emitNoDatabases", "exited"}
    /\ rejection = <<>>
    /\ result = <<>>
    /\ ~Issued("prompt3")
    /\ prompt = <<>>
    /\ spinner = "failed"
    /\ printed =
         (IF err[1].code = "BadRequestException" /\ includes(err[1].message, <<"Access", "denied", "for", "user">>)
          THEN <<[msg |-> EnsureCredentialsMessage, arg |-> selectedSecretArn]>>
          ELSE <<>>) \o <<Message(NoDatabasesMessage)>>
    /\ emitted = <<"ResourceDoesNotExistError">>
    /\ pc = "exited" => (exitCode = <<0>> /\ trace[Len(trace)] = "exit")

C7_Witness ==
  /\ pc = "exited"
  /\ err # <<>>
  /\ Len(printed) = 2
  /\ printed[1].arg = selectedSecretArn

EmitSites == {"emitNoApis", "emitNoAppSyncApi", "emitNoClusters", "emitNoSecrets", "emitNoDatabases"}

TraceEndsWith(suffix) ==
  /\ Len(trace) >= Len(suffix)
  /\ SubSeq(trace, Len(trace) - Len(suffix) + 1, Len(trace)) = suffix

\* C8 as stated: no error is ever thrown to the caller of serviceWalkthrough; every
\* failure path, a failing provider call included, ends in termination after the error
\* was printed and emitted, and returns no result.
C8_Original ==
  /\ rejection = <<>>
  /\ pc # "rejected"
  /\ pc = "exited" => (TraceEndsWith(<<"print", "emitError", "exit">>) /\ result = <<>>)

\* C8 as amended: the failures the walkthrough detects itself (missing API resource, no
\* eligible cluster, no secrets, no databases, a failing executeStatement) end in
\* termination with code 0 after the error was printed and then emitted, throw nothing
\* and return no result; a failing describeDBClusters or listSecrets call is not caught:
\* it rejects the promise of serviceWalkthrough with nothing printed, emitted or
\* terminated, and no result; a result is only returned by a run without any error.
C8_DetectedFailuresTerminate ==
  /\ pc = "exited" =>
       /\ exitCode = <<0>>
       /\ result = <<>>
       /\ rejection = <<>>
       /\ pending = {}
       /\ TraceEndsWith(<<"print", "emitError", "exit">>)
       /\ printed # <<>>
       /\ Len(emitted) = 1
  /\ pc \in EmitSites =>
       /\ TraceEndsWith(<<"print", "emitError">>)
       /\ result = <<>>
       /\ rejection = <<>>
       /\ exitCode = <<>>
  /\ pc = "rejected" =>
       /\ rejection # <<>>
       /\ result = <<>>
       /\ exitCode = <<>>
       /\ printed = <<>>
       /\ emitted = <<>>
       /\ trace[Len(trace)] \in {"describeDBClusters", "listSecrets", "describeDBCluster"}
  /\ err # <<>> => pc \in {"emitNoDatabases", "exited"}
  /\ result # <<>> =>
       /\ pc = "returned"
       /\ printed = <<>>
       /\ emitted = <<>>
       /\ exitCode = <<>>
       /\ rejection = <<>>
  /\ (printed # <<>> \/ emitted # <<>>) => pc \in EmitSites \cup {"exited"}

C8_Witness ==
  /\ pc = "rejected"
  /\ trace[Len(trace)] = "listSecrets"
  /\ Count("listSecrets") = 2

Successors(e) ==
  CASE e = "prompt0" -> {"getAwsClient"}
    [] e = "getAwsClient" -> {"describeDBClusters"}
    [] e = "describeDBClusters" -> {"prompt1", "print"}
    [] e = "prompt1" -> {"listSecrets"}
    [] e = "listSecrets" -> {"listSecrets", "prompt2", "describeDBCluster", "print"}
    [] e = "prompt2" -> {"describeDBCluster"}
    [] e = "describeDBCluster" -> {"executeStatement"}
    [] e = "executeStatement" -> {"prompt3", "print"}
    [] e = "prompt3" -> {}
    [] e = "print" -> {"print", "emitError"}
    [] e = "emitError" -> {"exit"}
    [] e = "exit" -> {}

\* C9: the steps of a run are issued in the order region prompt, getAwsClient, cluster
\* listing, cluster prompt, secret listing (one call per page), optional secret prompt,
\* cluster description, executeStatement, database prompt; the only operation in flight
\* is the one issued last, so at most one is in flight and a step starts only when the
\* previous one has resolved; nothing is issued after the exit.
C9_StepOrder ==
  /\ Cardinality(pending) <= 1
  /\ \A i \in 1..Len(trace) :
       IF i = 1 THEN trace[i] \in {"prompt0", "print"}
       ELSE trace[i] \in Successors(trace[i - 1])
  /\ pending \subseteq (IF trace = <<>> THEN {} ELSE {trace[Len(trace)]})
  /\ Issued("exit") => (pc = "exited" /\ pending = {} /\ trace[Len(trace)] = "exit")
  /\ pc = "returned" =>
       /\ pending = {}
       /\ trace[Len(trace)] = "prompt3"

C9_Witness ==
  /\ pc = "returned"
  /\ Issued("prompt2")
  /\ Count("listSecrets") = 2

SecretNames == [i \in 1..Len(rawSecrets) |-> rawSecrets[i].Name]

\* C10: when no listed secret name starts with rds-db-credentials/<resource id>,
\* getSecretStoreArn prompts once, with question 2, over the names of all listed secrets
\* and returns the ARN of the secret whose name was chosen; when nothing is listed it
\* renders no prompt, prints "No RDS access credentials found ...", emits a
\* ResourceCredentialsNotFoundError and exits, and the cluster is never described for
\* database selection.
C10_SecretFallback ==
  /\ (DetectionDone /\ MatchIndexes = {}) =>
       IF rawSecrets = <<>>
       THEN /\ pc = "emitNoSecrets"
            /\ prompt = <<>>
            /\ ~Issued("prompt2")
            /\ printed = <<Message(NoSecretsMessage)>>
            /\ emitted = <<"ResourceCredentialsNotFoundError">>
            /\ selectedSecretArn = "undefined"
            /\ ~Issued("describeDBCluster")
       ELSE /\ pc \in {"prompt2", "getSecretStoreArnReturned"}
            /\ Count("prompt2") = 1
            /\ printed = <<>>
            /\ pc = "prompt2" => prompt = <<[questionNumber |-> 2, choices |-> SecretNames]>>
            /\ pc = "getSecretStoreArnReturned" =>
                 \E i \in 1..Len(rawSecrets) :
                   /\ rawSecrets[i].Name = answer[1]
                   /\ rawSecrets[i].ARN = selectedSecretArn
  /\ (pc = "exited" /\ LastPrintedIs(NoSecretsMessage)) =>
       /\ rawSecrets = <<>>
       /\ emitted = <<"ResourceCredentialsNotFoundError">>
       /\ exitCode = <<0>>
       /\ ~Issued("prompt2")
       /\ ~Issued("describeDBCluster")

C10_Witness ==
  /\ pc = "getSecretStoreArnReturned"
  /\ Issued("prompt2")
  /\ Len(rawSecrets) >= 2
  /\ MatchIndexes = {}
  /\ selectedSecretArn = rawSecrets[2].ARN

=============================================================================
